---- MODULE Spec2Model ----
(***************************************************************************)
(* Model of stepper.Stepper / stepper.Stepper28BYJ48 (src/stepper.py).     *)
(*                                                                         *)
(* Units.  The Python code keeps __current_step as a float that moves in   *)
(* multiples of 0.5.  Every quantity that can be a multiple of 0.5 in the  *)
(* code (current_step, num_steps, steps_left) is stored here DOUBLED, as   *)
(* an integer number of half units: current_step = 3 here means            *)
(* position() == 1.5 in Python.  number_of_steps and the delays are kept   *)
(* in their own units.                                                     *)
(*                                                                         *)
(* A call of step() or reset() is not atomic: it is modelled statement by  *)
(* statement (loop test, one pin write at a time, one sleep_us at a time)  *)
(* with the program counter pc.                                            *)
(*                                                                         *)
(* The module also models servos.Servo / servos.SG90 (src/servos.py) and   *)
(* stepper_motors.Stepper (src/stepper_motors.py).  A Python float of the  *)
(* servo is a record: a number (whole microseconds, whole degrees or       *)
(* milliradians, by its use), NaN, or a value that is not int or float.    *)
(* One object of each class exists in every behaviour; a specification     *)
(* makes calls on one of them and leaves the others as constructed.        *)
(***************************************************************************)
EXTENDS Integers, Sequences, FiniteSets, TLC

\* ---------------------------------------------------------------- bounds
MaxNumberOfSteps == 4   \* largest number_of_steps a motor is built with
MaxNumSteps == 2        \* largest |num_steps| a caller passes to step()
MaxTravel == 2          \* a Stepper28BYJ48 is stepped only while position()
                        \* is within MaxTravel of 0 or of number_of_steps
MaxClock == 3           \* stepper_motors.Stepper.step() is called only while
                        \* ticks_ms() reads at most MaxClock

\* ------------------------------------------------------- program constants
\* src/stepper.py:4-11, rows of GENERIC_FULL_STEP for 2 and 4 pins
GENERIC_FULL_STEP_2 == << <<0, 1>>, <<1, 1>> >>
GENERIC_FULL_STEP_4 ==
    << <<1, 0, 1, 0>>, <<0, 1, 1, 0>>, <<0, 1, 0, 1>>, <<1, 0, 0, 1>> >>

\* src/stepper.py:352-361
HALF_STEPS ==
    << <<1, 1, 1, 0>>, <<1, 1, 0, 0>>, <<1, 1, 0, 1>>, <<1, 0, 0, 1>>,
       <<1, 0, 1, 1>>, <<0, 0, 1, 1>>, <<0, 1, 1, 1>>, <<0, 1, 1, 0>> >>

\* a half-step table a caller supplies for a two-pin motor (half_steps
\* argument, src/stepper.py:77)
HALF_STEPS_2 == << <<0, 1>>, <<1, 1>>, <<1, 0>>, <<0, 0>> >>

\* the value of an argument the caller leaves out (Python None); the bool
\* argument of mode() is "True" or "False"
None == "None"

\* src/stepper.py:78, default min_full_us and min_half_us
min_full_us == 10000
min_half_us == 1000

\* src/stepper.py:25
MICRO_TO_SECOND == 1000000

\* src/stepper.py:365, the default number_of_steps of Stepper28BYJ48
DEFAULT_NUMBER_OF_STEPS == 2048

\* values a caller passes to delay(v, 'us'); 0 is falsy like an omitted delay
DelayInputs == {0, 1500}

\* values a caller passes to delay(v, 'us'), delay(v, 'sps') and
\* delay(v, 'rpm') where the claims are about the speed conversions
UsInputs == {0, 1500, 3000}
SpsInputs == {0, -5, 500}
RpmInputs == {0, -3, 1500, 7000}

\* src/stepper.py:150-158, the methods delay() knows
Methods == {"us", "sps", "rpm"}

VARIABLES
    number_of_steps,  \* __number_of_steps
    full_steps,       \* __full_steps, sequence of rows
    half_steps,       \* __half_steps, <<>> when not configured (None)
    pins,             \* last value written to each pin, -1 = never written
    direction,        \* __direction, 1 or -1
    current_step,     \* __current_step, in half units (see above)
    delay,            \* __delay, microseconds
    step_mode,        \* __step_mode, TRUE = FullStep, FALSE = HalfStep
    pc,               \* "idle", "loop", "write", "sleep", "clean"
    op,               \* public method running or last run
    change,           \* argument of the last mode() call
    num_steps,        \* argument of the running/last step() call, half units
    steps_left,       \* local of step(), half units
    sleep_delay,      \* local `delay` of step()
    step_indx,        \* local of step()
    wi,               \* number of iterations done by the running pin loop
    wcount,           \* writes per pin since the running __step_motor began
    emits,            \* __step_motor calls made by the running/last step()
    sleeps,           \* sleep_us calls made by the running/last step()
    writes,           \* pin writes made by the running/last public call
    start_step,       \* current_step when the running/last public call began
    start_mode,       \* step_mode when the running/last public call began
    prev,             \* the step() call completed just before this call
    only_step,        \* TRUE while every public call so far was step()
    unit,             \* |change of current_step| of the last loop iteration
                      \* that did not wrap, per mode (0 = none yet)
    outcome,          \* how the running/last public call ended: "return",
                      \* "raised" (a pin write raised), "IndexError"
    arg,              \* arguments of the last delay() call
    ret,              \* value the last delay() call returned, num/den
    last_set,         \* arguments of the last delay() setter call, kept
                      \* while only delay() calls follow it
    start_delay,      \* delay when the running/last public call began
    iter_start,       \* current_step when the running/last iteration of
                      \* the loop of step() began
    \* servos.Servo
    min_us,           \* __min_us
    max_us,           \* __max_us
    slope,            \* __slope, the fraction num/den in us per milliradian
    offset,           \* __offset
    current_us,       \* __current_us, a float record
    duty_ns,          \* last argument of __pwm.duty_ns
    servo_op,         \* public method of the servo last run
    servo_arg,        \* arguments of the last write() or read() call
    servo_ret,        \* value the last read() call returned
    servo_outcome,    \* how the last servo call ended: "return", "ValueError"
    start_us,         \* current_us when the last servo call began
    \* stepper_motors.Stepper
    m_number_of_steps, \* __number_of_steps
    pin_count,        \* __pin_count
    motor_pins,       \* last value written to __motor_pin_1.., -1 = never
    m_direction,      \* __direction, TRUE = forward
    step_number,      \* __step_number
    last_step_time,   \* __last_step_time, a clock reading
    m_step_delay,     \* __step_delay, the fraction num/den
    now,              \* what ticks_ms() returns
    m_pc,             \* "idle" or "poll" (inside the loop of step())
    m_num_steps,      \* argument of the running/last step() call
    m_steps_left,     \* local steps_left of step()
    m_emits,          \* __step_motor calls made by the running/last step()
    m_outcome,        \* how the last call on the motor ended: "return",
                      \* "ZeroDivisionError"
    emit_elapsed      \* now - __last_step_time read by the iteration that
                      \* made the last __step_motor call

stepper_state == << number_of_steps, full_steps, half_steps, pins, direction,
           current_step, delay, step_mode, pc, op, change, num_steps,
           steps_left, sleep_delay, step_indx, wi, wcount, emits, sleeps,
           writes, start_step, start_mode, prev, only_step, unit, outcome,
           arg, ret, last_set, start_delay, iter_start >>

servo_config == << min_us, max_us, slope, offset >>
servo == << servo_config, current_us, duty_ns, servo_op, servo_arg,
            servo_ret, servo_outcome, start_us >>

motor_config == << m_number_of_steps, pin_count >>
motor == << motor_config, motor_pins, m_direction, step_number,
            last_step_time, m_step_delay, now, m_pc, m_num_steps,
            m_steps_left, m_emits, m_outcome, emit_elapsed >>

vars == << stepper_state, servo, motor >>

config == << number_of_steps, full_steps, half_steps >>
locals == << steps_left, sleep_delay, step_indx, wi, wcount >>
delay_call == << arg, ret, last_set >>

\* ------------------------------------------------------------ pure helpers
\* a bookkeeping helper: the magnitude of a signed count
Magnitude(n) == IF n >= 0 THEN n ELSE -n

\* abs() forgotten: a backward move has nothing left to do
abs_NoNegate(n) == n

\* src/stepper.py:253
abs(n) == IF n >= 0 THEN n ELSE -n

NoPrev == [valid |-> FALSE, n |-> 0, p |-> 0, m |-> TRUE]
NoArg == [method |-> None, v |-> 0]
NoRet == [num |-> 0, den |-> 1]

\* Python's int(a / b) for a >= 0 and b # 0: truncation toward zero
trunc_div(a, b) == IF b > 0 THEN a \div b ELSE -(a \div (-b))

\* __rpm that forgets number_of_steps
convert_RpmIgnoresSteps(v, method, nsteps) ==
    CASE method = "us" -> v
      [] method = "sps" -> trunc_div(MICRO_TO_SECOND, v)
      [] method = "rpm" -> trunc_div(60 * MICRO_TO_SECOND, v)

\* src/stepper.py:187-188, 201-202, 215-216: fc_method(delay) for a truthy
\* delay, truncated.  __check_delay compares the float with an integer
\* minimum >= 1 and then truncates, which gives the same result as
\* comparing the truncated value.
convert(v, method, nsteps) ==
    CASE method = "us" -> v
      [] method = "sps" -> trunc_div(MICRO_TO_SECOND, v)
      [] method = "rpm" -> trunc_div(60 * MICRO_TO_SECOND, nsteps * v)

\* src/stepper.py:189, 203, 218: fc_method() as the fraction num/den
delay_get(method, stored, nsteps) ==
    CASE method = "us" -> [num |-> stored, den |-> 1]
      [] method = "sps" -> [num |-> MICRO_TO_SECOND, den |-> stored]
      [] method = "rpm" -> [num |-> 60 * MICRO_TO_SECOND,
                            den |-> nsteps * stored]

\* src/stepper.py:174-175; int(delay) is the identity on the integers used
check_delay(d, mode) ==
    LET min_delay == IF mode THEN min_full_us ELSE min_half_us * 2
    IN  IF d < min_delay THEN min_delay ELSE d

\* src/stepper.py:150-162 with method == 'us': the stored delay after
\* delay(v, 'us'); a falsy v is the getter and stores nothing
delay_us(v, stored, mode) ==
    IF v = 0 THEN stored ELSE check_delay(v, mode)

\* src/stepper.py:150-161: the stored delay after delay(v, method); a falsy
\* v is the getter and stores nothing
delay_set(v, method, stored, mode, nsteps) ==
    IF v = 0 THEN stored ELSE check_delay(convert(v, method, nsteps), mode)

\* step() that sleeps the stored delay (halved in Half mode) as it is
step_delay_NoClamp(stored, mode) == stored \div (IF mode THEN 1 ELSE 2)

\* src/stepper.py:255, the local delay of step()
step_delay(stored, mode) ==
    check_delay(delay_us(stored, stored, mode) \div (IF mode THEN 1 ELSE 2),
                mode)

\* src/stepper.py:252, n in half units
step_direction(n) == IF n >= 0 THEN 1 ELSE -1

\* off-by-one loop condition: one iteration too many
StepsRemain_OffByOne(left) == left >= 0

\* src/stepper.py:257, the loop condition
StepsRemain(left) == left > 0

\* src/stepper.py:259-265, the wrap made before the increment (half units)
wrap_step(cur, dir, nsteps) ==
    LET GreaterOrEqual == cur >= 2 * nsteps
        LessOrEqual == cur <= 0
    IN  IF GreaterOrEqual /\ dir = 1 THEN 0
        ELSE IF LessOrEqual /\ dir = -1 THEN 2 * nsteps
        ELSE cur

\* src/stepper.py:267: += (0.5 if step_mode else 1) * direction, half units
step_increment(mode, dir) == (IF mode THEN 1 ELSE 2) * dir

\* the row index without the modulo
compute_step_indx_NoModulo(cur, mode, size) ==
    IF mode THEN cur ELSE cur \div 2

\* src/stepper.py:271-272.  Full: int(2*cur_py % size) = cur % size.
\* Half: int(cur_py % size) = floor((cur mod 2*size) / 2).
compute_step_indx(cur, mode, size) ==
    IF mode THEN cur % size ELSE (cur % (2 * size)) \div 2

\* src/stepper.py:331
step_row(mode, full, half, this_step) ==
    IF mode THEN full[this_step + 1] ELSE half[this_step + 1]

\* src/stepper.py:333: the w-th element of list(range(len))[::direction]
pin_of_iteration(w, len, dir) == IF dir = 1 THEN w ELSE len - 1 - w

\* __step_motor that reads the row in pin order whatever the direction
row_value_NoMirror(row, i, dir, mode) == row[i + 1]

\* src/stepper.py:334: step[i*(direction if step_mode else 1)], with
\* Python's negative indexing
row_value(row, i, dir, mode) ==
    LET j == i * (IF mode THEN dir ELSE 1)
        k == IF j < 0 THEN Len(row) + j ELSE j
    IN  row[k + 1]

\* src/stepper.py:285-290: the argument reset() passes to step(), half units
reset_steps(cur, nsteps, mode) ==
    LET steps_diff == 2 * nsteps - cur
        steps == IF cur < steps_diff THEN -cur ELSE steps_diff
    IN  steps * (IF mode THEN 2 ELSE 1)

\* __clean that writes nothing
clean_pin_Skip(ps, i) == ps

\* src/stepper.py:319
clean_pin(ps, i) == [ps EXCEPT ![i] = 0]

\* mode() that forgets to look for the half-step table
mode_accepts_NoTableCheck(chg, half) == chg # None

\* src/stepper.py:236
mode_accepts(chg, half) == chg # None /\ half # <<>>

\* ------------------------------------------------------- servos.Servo
\* src/servos.py:153, the defaults of SG90, and a Servo built with other
\* limits
SG90 == [min_us |-> 500, max_us |-> 2500, min_deg |-> 0, max_deg |-> 180]

ServoConfigs ==
    { SG90, [min_us |-> 1000, max_us |-> 2000, min_deg |-> -90,
             max_deg |-> 90] }

\* pi in thousandths, for math.radians and math.degrees (src/servos.py:2)
PI_MILLI == 3142

\* Python floats: a number, NaN, and a value that is neither int nor float
Num(n) == [t |-> "num", v |-> n]
NaN == [t |-> "nan", v |-> 0]
NotANumber == [t |-> "other", v |-> 0]

\* values a caller passes to write(); the numbers are read as microseconds,
\* degrees or milliradians by the method
ServoInputs ==
    { Num(n) : n \in {-5, 0, 90, 1000, 1571, 3000} } \cup {NaN, NotANumber}

ServoMethods == {"us", "rad", "deg"}

\* a / b of two integers, truncated toward zero
quotient(a, b) ==
    LET q == Magnitude(a) \div Magnitude(b)
    IN  IF (a < 0) = (b < 0) THEN q ELSE -q

\* math.radians, degrees -> milliradians
radians(deg) == quotient(deg * PI_MILLI, 180)

\* math.degrees, milliradians -> degrees
degrees(rad) == quotient(rad * 180, PI_MILLI)

\* src/servos.py:59
servo_slope(cfg) ==
    [num |-> cfg.min_us - cfg.max_us,
     den |-> radians(cfg.min_deg) - radians(cfg.max_deg)]

\* Python's < and > on floats: every comparison with NaN is False
less(a, b) == a.t = "num" /\ a.v < b
greater(a, b) == a.t = "num" /\ a.v > b

\* src/servos.py:82-85
clamp_us(us, lo, hi) ==
    IF less(us, lo) THEN Num(lo)
    ELSE IF greater(us, hi) THEN Num(hi)
    ELSE us

\* src/servos.py:91, rad*slope + offset; arithmetic on NaN gives NaN
rad_to_us(rad, sl, off) ==
    IF rad.t = "nan" THEN NaN
    ELSE Num(quotient(rad.v * sl.num, sl.den) + off)

\* src/servos.py:94
deg_to_rad(deg) == IF deg.t = "nan" THEN NaN ELSE Num(radians(deg.v))

\* src/servos.py:74-79 with 91 and 94: the argument write() passes on to
\* __write_us
write_arg(value, method, sl, off) ==
    CASE method = "us" -> value
      [] method = "rad" -> rad_to_us(value, sl, off)
      [] method = "deg" -> rad_to_us(deg_to_rad(value), sl, off)

\* src/servos.py:117, (current_us - offset) / slope
read_rad(us, sl, off) ==
    IF us.t = "nan" THEN NaN
    ELSE Num(quotient((us.v - off) * sl.den, sl.num))

\* src/servos.py:106-120
read_value(us, method, sl, off) ==
    CASE method = "us" -> us
      [] method = "rad" -> read_rad(us, sl, off)
      [] method = "deg" ->
           LET r == read_rad(us, sl, off)
           IN  IF r.t = "nan" THEN NaN ELSE Num(degrees(r.v))

NoServoArg == [method |-> None, value |-> Num(0)]

\* src/servos.py:53-60
ServoConstruct(cfg) ==
    /\ min_us = cfg.min_us
    /\ max_us = cfg.max_us
    /\ slope = servo_slope(cfg)
    /\ offset = cfg.min_us
    /\ current_us = Num(0)
    /\ duty_ns = 0
    /\ servo_op = "init"
    /\ servo_arg = NoServoArg
    /\ servo_ret = Num(0)
    /\ servo_outcome = "return"
    /\ start_us = Num(0)

\* src/servos.py:62-88, write(value, method)
ServoWrite ==
    /\ \E method \in ServoMethods, value \in ServoInputs :
          /\ servo_arg' = [method |-> method, value |-> value]
          /\ IF value.t = "other"
             THEN /\ servo_outcome' = "ValueError"
                  /\ UNCHANGED << current_us, duty_ns >>
             ELSE LET us == clamp_us(write_arg(value, method, slope, offset),
                                     min_us, max_us)
                  IN  /\ current_us' = us
                      /\ IF us.t = "nan"
                         THEN /\ servo_outcome' = "ValueError"
                              /\ UNCHANGED duty_ns
                         ELSE /\ servo_outcome' = "return"
                              /\ duty_ns' = us.v * 1000
    /\ servo_op' = "write"
    /\ start_us' = current_us
    /\ UNCHANGED << stepper_state, motor, servo_config, servo_ret >>

\* src/servos.py:96-120, read(method)
ServoRead ==
    /\ \E method \in ServoMethods :
          /\ servo_arg' = [method |-> method, value |-> Num(0)]
          /\ servo_ret' = read_value(current_us, method, slope, offset)
    /\ servo_op' = "read"
    /\ servo_outcome' = "return"
    /\ start_us' = current_us
    /\ UNCHANGED << stepper_state, motor, servo_config, current_us, duty_ns >>

\* src/servos.py:122-124, off()
ServoOff ==
    /\ duty_ns' = 0
    /\ servo_op' = "off"
    /\ servo_outcome' = "return"
    /\ start_us' = current_us
    /\ UNCHANGED << stepper_state, motor, servo_config, current_us,
                    servo_arg, servo_ret >>

\* ------------------------------------------- stepper_motors.Stepper
\* src/stepper_motors.py:119-189, the patterns __step_motor writes to the
\* pins of a 2-pin and a 4-pin motor, by this_step
MOTOR_STEPS_2 == << <<0, 1>>, <<1, 1>>, <<1, 0>>, <<0, 0>> >>

MOTOR_STEPS_4 ==
    << <<1, 0, 1, 0>>, <<0, 1, 1, 0>>, <<0, 1, 0, 1>>, <<1, 0, 0, 1>> >>

\* src/stepper_motors.py:130-231, the patterns of a 5-pin motor
MOTOR_STEPS_5 ==
    << <<0, 1, 1, 0, 1>>, <<0, 1, 0, 0, 1>>, <<0, 1, 0, 1, 1>>,
       <<0, 1, 0, 1, 0>>, <<1, 1, 0, 1, 0>>, <<1, 0, 0, 1, 0>>,
       <<1, 0, 1, 1, 0>>, <<1, 0, 1, 0, 0>>, <<1, 0, 1, 0, 1>>,
       <<0, 0, 1, 0, 1>> >>

\* the pin counts __init__ can set (src/stepper_motors.py:53, 58, 62)
PinCounts == {2, 4, 5}

\* values a caller passes to set_speed()
SpeedInputs == {0, -15000000, 5000000, 15000000}

\* src/stepper_motors.py:73, 60 * 1000 * 1000 / number_of_steps / value
speed_delay(n, value) == [num |-> 60 * 1000 * 1000, den |-> n * value]

\* the least integer that is >= the fraction d
ceiling(d) ==
    IF d.den > 0 THEN -((-d.num) \div d.den) ELSE -(d.num \div (-d.den))

\* src/stepper_motors.py:91, now - last_step_time >= step_delay; the
\* clock readings are integers
due(clock, last, d) == clock - last >= ceiling(d)

\* step() without the wraparound
wrap_number_NoWrap(cur, n, forward) == cur

\* src/stepper_motors.py:96-99
wrap_number(cur, n, forward) ==
    IF cur = n /\ forward THEN 0
    ELSE IF cur = 0 /\ ~forward THEN n
    ELSE cur

\* src/stepper_motors.py:103 and 107, the argument of __step_motor
this_step(number, count) == number % (IF count = 5 THEN 10 ELSE 4)

\* src/stepper_motors.py:119-231
motor_pattern(ts, count) ==
    CASE count = 2 -> MOTOR_STEPS_2[ts + 1]
      [] count = 4 -> MOTOR_STEPS_4[ts + 1]
      [] count = 5 -> MOTOR_STEPS_5[ts + 1]

\* src/stepper_motors.py:27-32 and 41-62
MotorConstruct(n, count) ==
    /\ m_number_of_steps = n
    /\ pin_count = count
    /\ motor_pins = [i \in 1..count |-> -1]
    /\ m_direction = FALSE
    /\ step_number = 0
    /\ last_step_time = 0
    /\ m_step_delay = [num |-> 1, den |-> 1]
    /\ now = 0
    /\ m_pc = "idle"
    /\ m_num_steps = 0
    /\ m_steps_left = 0
    /\ m_emits = 0
    /\ m_outcome = "return"
    /\ emit_elapsed = 0

\* src/stepper_motors.py:66-73, set_speed(value)
MotorSetSpeed ==
    /\ m_pc = "idle"
    /\ \E value \in SpeedInputs :
          IF value = 0
          THEN m_outcome' = "ZeroDivisionError" /\ UNCHANGED m_step_delay
          ELSE /\ m_outcome' = "return"
               /\ m_step_delay' = speed_delay(m_number_of_steps, value)
    /\ UNCHANGED << stepper_state, servo, motor_config, motor_pins,
                    m_direction, step_number, last_step_time, now, m_pc,
                    m_num_steps, m_steps_left, m_emits, emit_elapsed >>

\* src/stepper_motors.py:83-86, entry of step(num_steps)
MotorStep ==
    /\ m_pc = "idle"
    /\ now <= MaxClock
    /\ \E n \in (-MaxNumSteps)..MaxNumSteps :
          /\ m_direction' = (n >= 0)
          /\ m_steps_left' = abs(n)
          /\ m_num_steps' = n
    /\ m_emits' = 0
    /\ m_outcome' = "return"
    /\ m_pc' = "poll"
    /\ UNCHANGED << stepper_state, servo, motor_config, motor_pins,
                    step_number, last_step_time, m_step_delay, now,
                    emit_elapsed >>

\* src/stepper_motors.py:88-107, a loop iteration that finds the step due
MotorEmit ==
    /\ m_pc = "poll"
    /\ m_steps_left > 0
    /\ due(now, last_step_time, m_step_delay)
    /\ last_step_time' = now
    /\ emit_elapsed' = now - last_step_time
    /\ step_number' = wrap_number(step_number, m_number_of_steps,
                                  m_direction)
                      + (IF m_direction THEN 1 ELSE -1)
    /\ m_steps_left' = m_steps_left - 1
    /\ m_emits' = m_emits + 1
    /\ motor_pins' = motor_pattern(this_step(step_number', pin_count),
                                   pin_count)
    /\ UNCHANGED << stepper_state, servo, motor_config, m_direction,
                    m_step_delay, now, m_pc, m_num_steps, m_outcome >>

\* src/stepper_motors.py:88-91 and 109, a loop iteration that finds the
\* step not due and sleeps; the clock reads more after the sleep (an
\* iteration after which it reads the same changes nothing)
MotorSleep ==
    /\ m_pc = "poll"
    /\ m_steps_left > 0
    /\ ~due(now, last_step_time, m_step_delay)
    /\ \E t \in 1..2 : now' = now + t
    /\ UNCHANGED << stepper_state, servo, motor_config, motor_pins,
                    m_direction, step_number, last_step_time, m_step_delay,
                    m_pc, m_num_steps, m_steps_left, m_emits, m_outcome,
                    emit_elapsed >>

\* src/stepper_motors.py:88, the loop ends and step() returns
MotorReturn ==
    /\ m_pc = "poll"
    /\ m_steps_left = 0
    /\ m_pc' = "idle"
    /\ UNCHANGED << stepper_state, servo, motor_config, motor_pins,
                    m_direction, step_number, last_step_time, m_step_delay,
                    now, m_num_steps, m_steps_left, m_emits, m_outcome,
                    emit_elapsed >>

\* time passes between two calls
MotorWait ==
    /\ m_pc = "idle"
    /\ now < MaxClock
    /\ now' = now + 1
    /\ UNCHANGED << stepper_state, servo, motor_config, motor_pins,
                    m_direction, step_number, last_step_time, m_step_delay,
                    m_pc, m_num_steps, m_steps_left, m_emits, m_outcome,
                    emit_elapsed >>

\* the servo and the stepper_motors.Stepper a program holds beside its
\* stepper.Stepper
OtherObjects == ServoConstruct(SG90) /\ MotorConstruct(2, 2)

\* ------------------------------------------------------------------- Init
\* motors whose tables are as wide as the pin list: Stepper with 2 and 4
\* pins and the built-in table, and Stepper28BYJ48
MatchingConfigs ==
    { <<2, GENERIC_FULL_STEP_2, <<>> >>,
      <<4, GENERIC_FULL_STEP_4, <<>> >>,
      <<4, GENERIC_FULL_STEP_4, HALF_STEPS>> }

\* motors built with a caller-supplied full_steps or half_steps whose rows
\* are narrower or wider than the pin list
MismatchedConfigs ==
    { <<4, GENERIC_FULL_STEP_2, <<>> >>,
      <<2, GENERIC_FULL_STEP_4, <<>> >>,
      <<2, GENERIC_FULL_STEP_2, HALF_STEPS>> }

\* src/stepper.py:94-116 and 363-367, a motor of n steps per revolution
ConstructSteps(n, cfg) ==
    /\ number_of_steps = n
    /\ pins = [i \in 0..(cfg[1] - 1) |-> -1]
    /\ full_steps = cfg[2]
    /\ half_steps = cfg[3]
    /\ direction = 1
    /\ current_step = 0
    /\ delay = min_full_us
    /\ step_mode = TRUE
    /\ pc = "idle"
    /\ op = "init"
    /\ change = None
    /\ num_steps = 0
    /\ steps_left = 0
    /\ sleep_delay = 0
    /\ step_indx = 0
    /\ wi = 0
    /\ wcount = [i \in DOMAIN pins |-> 0]
    /\ emits = 0
    /\ sleeps = 0
    /\ writes = 0
    /\ start_step = 0
    /\ start_mode = TRUE
    /\ prev = NoPrev
    /\ only_step = TRUE
    /\ unit = [full |-> 0, half |-> 0]
    /\ outcome = "return"
    /\ arg = NoArg
    /\ ret = NoRet
    /\ last_set = NoArg
    /\ start_delay = min_full_us
    /\ iter_start = 0

\* a motor of 2..MaxNumberOfSteps steps per revolution
Construct(cfg) == \E n \in 2..MaxNumberOfSteps : ConstructSteps(n, cfg)

Init == OtherObjects /\ \E cfg \in MatchingConfigs : Construct(cfg)

InitTables == OtherObjects /\ \E cfg \in MismatchedConfigs : Construct(cfg)

\* ---------------------------------------------------------------- actions
\* bookkeeping at the entry of every public call
EnterCall(o) ==
    /\ op' = o
    /\ outcome' = "return"
    /\ writes' = 0
    /\ start_step' = current_step
    /\ start_mode' = step_mode
    /\ start_delay' = delay

\* src/stepper.py:252-255, entry of step(n); n in half units
EnterStep(n) ==
    /\ direction' = step_direction(n)
    /\ steps_left' = abs(n)
    /\ delay' = delay_us(delay, delay, step_mode)
    /\ sleep_delay' = step_delay(delay, step_mode)
    /\ num_steps' = n
    /\ emits' = 0
    /\ sleeps' = 0
    /\ iter_start' = current_step
    /\ arg' = NoArg
    /\ ret' = NoRet
    /\ last_set' = NoArg
    /\ pc' = "loop"

\* a caller's step(num_steps) with an integer num_steps
Step ==
    /\ pc = "idle"
    /\ \E n \in (-MaxNumSteps)..MaxNumSteps : EnterStep(2 * n)
    /\ EnterCall("step")
    /\ prev' = IF op = "step" /\ outcome = "return"
               THEN [valid |-> TRUE, n |-> num_steps, p |-> start_step,
                     m |-> start_mode]
               ELSE NoPrev
    /\ UNCHANGED << servo, motor >>
    /\ UNCHANGED << config, pins, current_step, step_mode, change,
                    step_indx, wi, wcount, only_step, unit >>

\* src/stepper.py:257-274, one loop iteration up to the __step_motor call
StepAdvance ==
    /\ pc = "loop"
    /\ StepsRemain(steps_left)
    /\ LET wrapped == wrap_step(current_step, direction, number_of_steps)
           moved == wrapped + step_increment(step_mode, direction)
           size == Len(IF step_mode THEN full_steps ELSE half_steps)
       IN  /\ current_step' = moved
           /\ step_indx' = compute_step_indx(moved, step_mode, size)
           /\ unit' = IF wrapped # current_step THEN unit
                      ELSE IF step_mode
                           THEN [unit EXCEPT !.full = Magnitude(moved - current_step)]
                           ELSE [unit EXCEPT !.half = Magnitude(moved - current_step)]
    /\ iter_start' = current_step
    /\ steps_left' = steps_left - 2
    /\ emits' = emits + 1
    /\ wi' = 0
    /\ wcount' = [i \in DOMAIN pins |-> 0]
    /\ pc' = "write"
    /\ UNCHANGED << servo, motor >>
    /\ UNCHANGED << config, pins, direction, delay, step_mode, op, change,
                    num_steps, sleep_delay, sleeps, writes, start_step,
                    start_mode, prev, only_step, outcome, delay_call,
                    start_delay >>

\* src/stepper.py:333-334, one iteration of the loop of __step_motor; an
\* index past the end of __pins raises IndexError, which nothing catches
WritePin ==
    /\ pc = "write"
    /\ LET step == step_row(step_mode, full_steps, half_steps, step_indx)
           i == pin_of_iteration(wi, Len(step), direction)
       IN  IF i \in DOMAIN pins
           THEN /\ pins' = [pins EXCEPT ![i] = row_value(step, i, direction,
                                                         step_mode)]
                /\ wcount' = [wcount EXCEPT ![i] = @ + 1]
                /\ pc' = IF wi + 1 < Len(step) THEN "write" ELSE "sleep"
                /\ wi' = wi + 1
                /\ writes' = writes + 1
                /\ UNCHANGED outcome
           ELSE /\ pc' = "idle"
                /\ outcome' = "IndexError"
                /\ UNCHANGED << pins, wcount, wi, writes >>
    /\ UNCHANGED << servo, motor >>
    /\ UNCHANGED << config, direction, current_step, delay, step_mode, op,
                    change, num_steps, steps_left, sleep_delay, step_indx,
                    emits, sleeps, start_step, start_mode, prev, only_step,
                    unit, delay_call, start_delay, iter_start >>

\* src/stepper.py:319 and 334: Pin.value() of the host platform raises; the
\* exception leaves __step_motor, step() and reset() uncaught
PinWriteFails ==
    /\ pc \in {"write", "clean"}
    /\ pc' = "idle"
    /\ outcome' = "raised"
    /\ UNCHANGED << servo, motor >>
    /\ UNCHANGED << config, pins, direction, current_step, delay, step_mode,
                    op, change, num_steps, locals, emits, sleeps, writes,
                    start_step, start_mode, prev, only_step, unit,
                    delay_call, start_delay, iter_start >>

\* src/stepper.py:276
Sleep ==
    /\ pc = "sleep"
    /\ sleeps' = sleeps + 1
    /\ pc' = "loop"
    /\ UNCHANGED << servo, motor >>
    /\ UNCHANGED << config, pins, direction, current_step, delay, step_mode,
                    op, change, num_steps, steps_left, sleep_delay,
                    step_indx, wi, wcount, emits, writes, start_step,
                    start_mode, prev, only_step, unit, outcome, delay_call,
                    start_delay, iter_start >>

\* src/stepper.py:257, the loop ends: step() returns to its caller, which is
\* the user or line 290 of reset()
StepReturn ==
    /\ pc = "loop"
    /\ ~StepsRemain(steps_left)
    /\ pc' = IF op = "reset" THEN "clean" ELSE "idle"
    /\ wi' = 0
    /\ UNCHANGED << servo, motor >>
    /\ UNCHANGED << config, pins, direction, current_step, delay, step_mode,
                    op, change, num_steps, steps_left, sleep_delay,
                    step_indx, wcount, emits, sleeps, writes, start_step,
                    start_mode, prev, only_step, unit, outcome, delay_call,
                    start_delay, iter_start >>

\* src/stepper.py:285-290, entry of reset() up to the loop of step()
Reset ==
    /\ pc = "idle"
    /\ EnterStep(reset_steps(current_step, number_of_steps, step_mode))
    /\ EnterCall("reset")
    /\ prev' = NoPrev
    /\ only_step' = FALSE
    /\ UNCHANGED << servo, motor >>
    /\ UNCHANGED << config, pins, current_step, step_mode, change,
                    step_indx, wi, wcount, unit >>

\* src/stepper.py:318-319, one iteration of the loop of __clean
CleanPin ==
    /\ pc = "clean"
    /\ pins' = clean_pin(pins, wi)
    /\ wi' = wi + 1
    /\ writes' = writes + 1
    /\ pc' = IF wi + 1 < Cardinality(DOMAIN pins) THEN "clean" ELSE "idle"
    /\ UNCHANGED << servo, motor >>
    /\ UNCHANGED << config, direction, current_step, delay, step_mode, op,
                    change, num_steps, steps_left, sleep_delay, step_indx,
                    wcount, emits, sleeps, start_step, start_mode, prev,
                    only_step, unit, outcome, delay_call, start_delay,
                    iter_start >>

\* mode() that re-clamps the stored delay to the floor of the new mode
Mode_ReclampsDelay ==
    /\ pc = "idle"
    /\ \E chg \in {None, "True", "False"} :
          /\ change' = chg
          /\ step_mode' = IF mode_accepts(chg, half_steps)
                          THEN (IF chg = "True" THEN TRUE ELSE FALSE)
                          ELSE step_mode
    /\ delay' = check_delay(delay, step_mode')
    /\ EnterCall("mode")
    /\ prev' = NoPrev
    /\ only_step' = FALSE
    /\ arg' = NoArg
    /\ ret' = NoRet
    /\ last_set' = NoArg
    /\ UNCHANGED << servo, motor >>
    /\ UNCHANGED << unit, config, pins, direction, current_step, pc,
                    num_steps, locals, emits, sleeps, iter_start >>

\* src/stepper.py:236-238
Mode ==
    /\ pc = "idle"
    /\ \E chg \in {None, "True", "False"} :
          /\ change' = chg
          /\ step_mode' = IF mode_accepts(chg, half_steps)
                          THEN (IF chg = "True" THEN TRUE ELSE FALSE)
                          ELSE step_mode
    /\ EnterCall("mode")
    /\ prev' = NoPrev
    /\ only_step' = FALSE
    /\ arg' = NoArg
    /\ ret' = NoRet
    /\ last_set' = NoArg
    /\ UNCHANGED << servo, motor >>
    /\ UNCHANGED << unit, config, pins, direction, current_step, delay, pc,
                    num_steps, locals, emits, sleeps, iter_start >>

\* src/stepper.py:150-162, delay(v, method)
DelayCall(method, v) ==
    /\ pc = "idle"
    /\ delay' = delay_set(v, method, delay, step_mode, number_of_steps)
    /\ arg' = [method |-> method, v |-> v]
    /\ ret' = delay_get(method, delay', number_of_steps)
    /\ last_set' = IF v # 0 THEN [method |-> method, v |-> v] ELSE last_set
    /\ EnterCall("delay")
    /\ prev' = NoPrev
    /\ only_step' = FALSE
    /\ UNCHANGED << servo, motor >>
    /\ UNCHANGED << unit, config, pins, direction, current_step, step_mode, pc,
                    change, num_steps, locals, emits, sleeps, iter_start >>

\* a caller's delay(v) and delay(v, 'us')
Delay == \E v \in DelayInputs : DelayCall("us", v)

\* a caller's delay(v, method) with any of the three methods
DelaySpeed ==
    \E method \in Methods :
        \E v \in (CASE method = "us" -> UsInputs
                    [] method = "sps" -> SpsInputs
                    [] method = "rpm" -> RpmInputs) : DelayCall(method, v)

\* set_start() that also de-energizes the pins, as reset() does
SetStart_AlsoCleans ==
    /\ pc = "idle"
    /\ current_step' = 0
    /\ pins' = [i \in DOMAIN pins |-> 0]
    /\ EnterCall("set_start")
    /\ prev' = NoPrev
    /\ only_step' = FALSE
    /\ arg' = NoArg
    /\ ret' = NoRet
    /\ last_set' = NoArg
    /\ UNCHANGED << servo, motor >>
    /\ UNCHANGED << unit, config, direction, delay, step_mode, pc, change,
                    num_steps, locals, emits, sleeps, iter_start >>

\* src/stepper.py:300
SetStart ==
    /\ pc = "idle"
    /\ current_step' = 0
    /\ EnterCall("set_start")
    /\ prev' = NoPrev
    /\ only_step' = FALSE
    /\ arg' = NoArg
    /\ ret' = NoRet
    /\ last_set' = NoArg
    /\ UNCHANGED << servo, motor >>
    /\ UNCHANGED << unit, config, pins, direction, delay, step_mode, pc, change,
                    num_steps, locals, emits, sleeps, iter_start >>

Next ==
    \/ Step
    \/ StepAdvance
    \/ WritePin
    \/ Sleep
    \/ StepReturn
    \/ Reset
    \/ CleanPin
    \/ Mode
    \/ Delay
    \/ SetStart

Spec == Init /\ [][Next]_vars

\* the same program on motors built with mismatched tables
SpecTables == InitTables /\ [][Next]_vars

\* a two-pin Stepper with a caller-supplied half-step table, whose caller
\* uses every method of delay() between mode switches and moves
InitDelay ==
    OtherObjects /\ Construct(<<2, GENERIC_FULL_STEP_2, HALF_STEPS_2>>)

NextDelay ==
    \/ DelaySpeed
    \/ Mode
    \/ Step
    \/ StepAdvance
    \/ WritePin
    \/ Sleep
    \/ StepReturn

SpecDelay == InitDelay /\ [][NextDelay]_vars

\* a two-pin Stepper on a host platform whose Pin.value() may raise
InitFail == OtherObjects /\ Construct(<<2, GENERIC_FULL_STEP_2, <<>> >>)

NextFail ==
    \/ Step
    \/ StepAdvance
    \/ WritePin
    \/ PinWriteFails
    \/ Sleep
    \/ StepReturn
    \/ Reset
    \/ CleanPin

SpecFail == InitFail /\ [][NextFail]_vars

\* a Stepper28BYJ48 with its defaults, stepped around the 0 /
\* number_of_steps wraparound
Init28BYJ48 ==
    /\ OtherObjects
    /\ ConstructSteps(DEFAULT_NUMBER_OF_STEPS,
                      <<4, GENERIC_FULL_STEP_4, HALF_STEPS>>)

NearWrap ==
    \/ current_step <= 2 * MaxTravel
    \/ current_step >= 2 * (number_of_steps - MaxTravel)

StepNearWrap == NearWrap /\ Step

Next28BYJ48 ==
    \/ StepNearWrap
    \/ StepAdvance
    \/ WritePin
    \/ Sleep
    \/ StepReturn
    \/ Reset
    \/ CleanPin
    \/ Mode
    \/ SetStart

Spec28BYJ48 == Init28BYJ48 /\ [][Next28BYJ48]_vars

\* a Servo whose caller writes, reads and switches it off
InitServo ==
    /\ \E cfg \in ServoConfigs : ServoConstruct(cfg)
    /\ MotorConstruct(2, 2)
    /\ ConstructSteps(2, <<2, GENERIC_FULL_STEP_2, <<>> >>)

NextServo ==
    \/ ServoWrite
    \/ ServoRead
    \/ ServoOff

SpecServo == InitServo /\ [][NextServo]_vars

\* a stepper_motors.Stepper whose caller sets speeds and moves it
InitMotor ==
    /\ \E n \in 2..MaxNumberOfSteps, count \in PinCounts :
          MotorConstruct(n, count)
    /\ ServoConstruct(SG90)
    /\ ConstructSteps(2, <<2, GENERIC_FULL_STEP_2, <<>> >>)

NextMotor ==
    \/ MotorSetSpeed
    \/ MotorStep
    \/ MotorEmit
    \/ MotorSleep
    \/ MotorReturn
    \/ MotorWait

SpecMotor == InitMotor /\ [][NextMotor]_vars

\* the running step() call keeps executing, and the clock keeps advancing
\* while it polls
SpecMotorFair ==
    /\ SpecMotor
    /\ WF_vars(MotorEmit)
    /\ WF_vars(MotorSleep)
    /\ WF_vars(MotorReturn)

\* src/stepper.py:309, position() in half units
position == current_step

TypeOK ==
    /\ direction \in {1, -1}
    /\ pc \in {"idle", "loop", "write", "sleep", "clean"}
    /\ step_mode \in BOOLEAN
    /\ \A i \in DOMAIN pins : pins[i] \in {-1, 0, 1}
    /\ outcome \in {"return", "raised", "IndexError"}

\* ------------------------------------------------------ helpers for claims
PinCount == Cardinality(DOMAIN pins)

\* a public call has returned
Returned(o) == pc = "idle" /\ op = o /\ outcome = "return"

\* ------------------------------------------------------------------ claims

\* C1 (as claimed): after any sequence of step() calls from the initial
\* state, 0 <= position() < number_of_steps.  current_step is in half units.
C1_PositionInHalfOpenRange ==
    (only_step /\ pc = "idle")
        => (0 <= current_step /\ current_step < 2 * number_of_steps)

\* C2 (as claimed): with no mode() call in between, step(+k) followed by
\* step(-k) leaves position() exactly where it was before step(+k).
C2_ForwardBackwardRoundTrip ==
    (Returned("step") /\ prev.valid /\ prev.n >= 0 /\ num_steps = -prev.n
        /\ prev.m = start_mode)
        => current_step = prev.p

\* C3 (as claimed): in Full mode from position 0, step(n) with
\* 0 <= n < number_of_steps leaves position() == n.  Both sides doubled.
C3_FullModePositionEqualsSteps ==
    (Returned("step") /\ start_mode /\ start_step = 0 /\ num_steps >= 0
        /\ num_steps < 2 * number_of_steps)
        => current_step = num_steps

\* C4: step(n) with an integer n makes exactly |n| pattern emissions in the
\* direction of the sign of n; every emission writes every pin exactly once
\* and is followed by exactly one sleep_us before the next emission's first
\* pin write; the call ends after the |n|-th sleep.
C4_EmissionsAndSleeps ==
    /\ pc = "write" =>
          /\ \A i \in DOMAIN pins : wcount[i] <= 1
          /\ sleeps = emits - 1
    /\ pc = "sleep" =>
          /\ \A i \in DOMAIN pins : wcount[i] = 1
          /\ sleeps = emits - 1
    /\ pc = "loop" => sleeps = emits
    /\ (pc \in {"loop", "write", "sleep"} /\ op = "step") =>
          /\ direction = (IF num_steps >= 0 THEN 1 ELSE -1)
          /\ 2 * emits <= Magnitude(num_steps)
          /\ writes = PinCount * sleeps + (IF pc = "loop" THEN 0 ELSE wi)
    /\ (Returned("step") \/ (pc = "clean" /\ num_steps % 2 = 0)) =>
          /\ 2 * emits = Magnitude(num_steps)
          /\ sleeps = emits
    /\ Returned("step") =>
          /\ writes = PinCount * emits
          /\ direction = (IF num_steps >= 0 THEN 1 ELSE -1)

\* C4 witness: a backward step(-2) has returned after two emissions
C4_Witness ==
    Returned("step") /\ num_steps = -4 /\ emits = 2 /\ sleeps = 2

\* C5 (as claimed): after reset() returns, position() == 0.
C5_ResetEndsAtOrigin ==
    Returned("reset") => current_step = 0

\* C6: when reset() returns every pin's last written value is 0, and the
\* zero writes come after the last emission and the last sleep of the
\* homing move.
C6_ResetDeenergizes ==
    /\ Returned("reset") => \A i \in DOMAIN pins : pins[i] = 0
    /\ pc = "clean" =>
          /\ ~StepsRemain(steps_left)
          /\ sleeps = emits
          /\ \A i \in DOMAIN pins : i < wi => pins[i] = 0

\* C6 witness: reset() has returned after a homing move that energized pins
C6_Witness ==
    Returned("reset") /\ emits > 0 /\ writes = PinCount * (emits + 1)

\* C7 (as claimed): reset() from position c calls step() with a signed count
\* of magnitude min(c, number_of_steps - c), backward when
\* c < number_of_steps - c and forward otherwise.  Both sides doubled.
C7_ResetTakesShorterPath ==
    op = "reset" =>
        num_steps = (IF start_step < 2 * number_of_steps - start_step
                     THEN -start_step
                     ELSE 2 * number_of_steps - start_step)

\* C8: step(0) writes no pin, never sleeps and leaves position() unchanged.
C8_StepZeroIsNoop ==
    (op = "step" /\ num_steps = 0) =>
        /\ pc \in {"loop", "idle"}
        /\ writes = 0
        /\ sleeps = 0
        /\ emits = 0
        /\ current_step = start_step

\* C8 witness: step(0) has returned on a motor that had moved before
C8_Witness ==
    /\ Returned("step") /\ num_steps = 0
    /\ current_step # 0
    /\ \E i \in DOMAIN pins : pins[i] = 1

\* C9 (as claimed): one Half-mode step changes position() by half of what
\* one Full-mode step changes it.
C9_HalfStepIsHalfOfFullStep ==
    (unit.full # 0 /\ unit.half # 0) => 2 * unit.half = unit.full

\* C10: the mode is Half only if a half-step table is configured; mode(False)
\* without a table leaves the mode Full, and step() never indexes a missing
\* table.
C10_HalfModeNeedsTable ==
    /\ ~step_mode => half_steps # <<>>
    /\ (Returned("mode") /\ change = "False" /\ half_steps = <<>>)
          => step_mode
    /\ pc = "write" =>
          (step_indx + 1) \in
              DOMAIN (IF step_mode THEN full_steps ELSE half_steps)

\* C10 witness: mode(False) was requested without a half-step table
C10_Witness ==
    Returned("mode") /\ change = "False" /\ half_steps = <<>> /\ step_mode

\* ------------------------------------------- helpers for the later claims
Max(a, b) == IF a >= b THEN a ELSE b

\* the floor the claims name for a mode
ClaimedFloor(mode) == IF mode THEN min_full_us ELSE min_half_us

\* the floor the setter clamps to in a mode
AppliedFloor(mode) == IF mode THEN min_full_us ELSE 2 * min_half_us

\* the converted value of a positive speed, truncated to an integer
Converted(v, method) ==
    CASE method = "us" -> v
      [] method = "sps" -> 1000000 \div v
      [] method = "rpm" -> 60000000 \div (number_of_steps * v)

\* the fraction q is the speed r up to the truncation of the delay to whole
\* microseconds: r <= q < r * (d + 1) / d, where q.den = number_of_steps * d
RoundTrips(r, q) ==
    /\ r * q.den <= q.num
    /\ q.num < r * (q.den + number_of_steps)

\* a getter delay(method='rpm') has returned, and the delay() setter call
\* before it (only getters in between) was delay(r, 'rpm') with r > 0
RpmReadBack ==
    /\ Returned("delay")
    /\ arg = [method |-> "rpm", v |-> 0]
    /\ last_set.method = "rpm"
    /\ last_set.v > 0

\* the table of the active mode and the row step() selects from the
\* position and the mode alone
ActiveTable == IF step_mode THEN full_steps ELSE half_steps

SelectedRow ==
    ActiveTable[compute_step_indx(current_step, step_mode,
                                  Len(ActiveTable)) + 1]

\* the index of the row the claim says pin i receives
PermutedIndex(i, width) ==
    IF step_mode /\ direction = -1 THEN (width - i) % width ELSE i

\* C11: a mode() call, getter or setter, accepted or rejected, leaves
\* position(), the direction, the stored delay and every pin unchanged.
C11_ModeChangesOnlyTheMode ==
    [][(pc = "idle" /\ pc' = "idle" /\ op' = "mode") =>
          /\ current_step' = current_step
          /\ direction' = direction
          /\ delay' = delay
          /\ pins' = pins]_vars

\* C11 witness: mode(False) was accepted on a motor that had moved backward
C11_Witness ==
    /\ Returned("mode") /\ change = "False" /\ start_mode /\ ~step_mode
    /\ current_step # 0
    /\ direction = -1
    /\ \E i \in DOMAIN pins : pins[i] = 1

\* C12 (as claimed): delay(v, unit) with v > 0 stores
\* max(floor, truncated converted value), the floor being min_full_us in
\* Full mode and min_half_us in Half mode.
C12_SetterClampsToModeFloor ==
    (Returned("delay") /\ arg.v > 0)
        => delay = Max(ClaimedFloor(step_mode), Converted(arg.v, arg.method))

\* C13 (as claimed): in every reachable state the stored delay is at least
\* the floor of the active mode.
C13_DelayNeverBelowActiveFloor ==
    delay >= ClaimedFloor(step_mode)

\* C14 (as claimed): the duration slept between steps is the stored delay in
\* Full mode and exactly half of it (integer division) in Half mode.
C14_HalfModeSleepsHalfTheDelay ==
    pc = "sleep"
        => sleep_delay = (IF step_mode THEN delay ELSE delay \div 2)

\* C15 (as claimed): delay(v, 'sps') and delay(v, 'rpm') with v <= 0 are
\* reported as an invalid speed, without a crash, and leave the stored delay
\* unchanged.
C15_NonPositiveSpeedIsRejected ==
    (pc = "idle" /\ op = "delay" /\ arg.method \in {"sps", "rpm"}
        /\ arg.v <= 0)
        => (outcome = "InvalidSpeed" /\ delay = start_delay)

\* C16 (as claimed): delay(r, 'rpm') with r > 0 followed by
\* delay(method='rpm') returns r up to the rounding of the integer delay,
\* however r compares with the floor.
C16_RpmRoundTripAlways ==
    RpmReadBack => RoundTrips(last_set.v, ret)

\* C16 (amended): the read-back is r up to rounding when the converted delay
\* is not below the floor the setter clamps to; otherwise the stored delay
\* is that floor and the read-back is the slower speed of the floor.
C16_RpmRoundTripUnlessClamped ==
    RpmReadBack =>
        IF Converted(last_set.v, "rpm") >= AppliedFloor(step_mode)
        THEN RoundTrips(last_set.v, ret)
        ELSE /\ ret = [num |-> 60000000,
                       den |-> number_of_steps * AppliedFloor(step_mode)]
             /\ ret.num < last_set.v * ret.den

\* C16 witness: 1500 rpm on a 3-step motor reads back from the truncated
\* delay of 13333 us
C16_Witness ==
    /\ RpmReadBack /\ last_set.v = 1500 /\ number_of_steps = 3
    /\ delay = 13333
    /\ ret.den = 3 * 13333

\* C17: set_start() sets position() to 0 without a pin write or a sleep and
\* leaves the step mode, the direction and the stored delay unchanged.
C17_SetStartOnlyZeroesPosition ==
    [][(pc = "idle" /\ pc' = "idle" /\ op' = "set_start") =>
          /\ current_step' = 0
          /\ pins' = pins
          /\ writes' = 0
          /\ sleeps' = sleeps
          /\ emits' = emits
          /\ step_mode' = step_mode
          /\ direction' = direction
          /\ delay' = delay]_vars

\* C17 witness: set_start() has returned on a Half-mode motor that had moved
\* backward away from the origin
C17_Witness ==
    /\ Returned("set_start") /\ start_step # 0 /\ current_step = 0
    /\ ~step_mode
    /\ direction = -1
    /\ \E i \in DOMAIN pins : pins[i] = 1

\* C18 (as claimed): when a pin write raises during the j-th step of
\* step(n), position() is the position after the j-1 completed steps.
C18_FailedStepIsNotCounted ==
    (pc = "idle" /\ op = "step" /\ outcome = "raised")
        => current_step = iter_start

\* C19 (as claimed): no Stepper exists on which step() meets a table row
\* whose width differs from the number of pins.
C19_NoWidthMismatchAtStep ==
    /\ pc = "write" => Len(ActiveTable[step_indx + 1]) = PinCount
    /\ outcome # "IndexError"

\* C20: the row is selected by position and mode alone; the pins receive
\* that row with the index permuted by direction (Full mode backward: pin i
\* gets row[(-i) mod width]; otherwise pin i gets row[i], backward in
\* reverse write order), so the bits written are those of the row.
C20_DirectionPermutesTheRow ==
    /\ pc \in {"write", "sleep"} =>
          /\ step_indx = compute_step_indx(current_step, step_mode,
                                           Len(ActiveTable))
          /\ LET width == Len(SelectedRow)
                 written == IF direction = 1 THEN 0..(wi - 1)
                            ELSE (width - wi)..(width - 1)
             IN  /\ \A i \in DOMAIN pins : (wcount[i] = 1) <=> (i \in written)
                 /\ \A i \in written :
                       pins[i] = SelectedRow[PermutedIndex(i, width) + 1]
    /\ pc = "sleep" =>
          Cardinality({i \in DOMAIN pins : pins[i] = 1})
              = Cardinality({k \in DOMAIN SelectedRow : SelectedRow[k] = 1})

\* C20 witness: a backward Full-mode emission on four pins is complete and
\* the pins hold the mirrored row, not the row in pin order
C20_Witness ==
    /\ pc = "sleep" /\ step_mode /\ direction = -1 /\ PinCount = 4
    /\ \E i \in DOMAIN pins : pins[i] # SelectedRow[i + 1]
\* ------------------------------------------- helpers for the servo claim
\* a float lies within [lo, hi]; NaN lies in no range
Within(x, lo, hi) == x.t = "num" /\ lo <= x.v /\ x.v <= hi

\* C21 (as claimed): after a write(value, method) call with a numeric value
\* the stored pulse width lies within [min_us, max_us], and off() does not
\* change the stored pulse width.
C21_PulseWidthStaysInRange ==
    /\ (servo_op = "write" /\ servo_arg.value.t # "other")
          => Within(current_us, min_us, max_us)
    /\ servo_op = "off" => current_us = start_us

\* C22: every duration step() passes to sleep_us is at least the configured
\* minimum of the mode active during the call (min_full_us in Full,
\* min_half_us in Half), also when the stored delay was set under the
\* other mode.
C22_SleepNeverBelowModeMinimum ==
    pc = "sleep" => sleep_delay >= ClaimedFloor(step_mode)

\* C22 witness: a Full-mode step() sleeps after the delay was stored in
\* Half mode below min_full_us and the mode was switched back
C22_Witness ==
    /\ pc = "sleep" /\ op = "step" /\ step_mode
    /\ start_delay < min_full_us
    /\ sleep_delay = min_full_us

\* C23 (as claimed): whatever step(), mode(), reset() and set_start() calls
\* are made, position() stays within the closed range [0, number_of_steps].
C23_PositionInClosedRange ==
    0 <= current_step /\ current_step <= 2 * number_of_steps

\* C24 (as claimed): on a Stepper28BYJ48 with its defaults, two consecutive
\* steps of one step() call (same direction, same mode) select rows whose
\* indices differ by exactly 1 modulo the row count, forward +1 and
\* backward -1, also across the 0 / number_of_steps wraparound.
C24_ConsecutiveRowsAreAdjacent ==
    (pc = "write" /\ emits >= 2) =>
        step_indx = (compute_step_indx(iter_start, step_mode,
                                       Len(ActiveTable))
                     + direction) % Len(ActiveTable)

\* C25: for every reachable position (half-integer, negative and
\* above-range ones included) and either mode, the row index step()
\* computes is an integer in [0, row_count) of the table of that mode, and
\* the index __step_motor looks up is within the active table.
C25_RowIndexInBounds ==
    /\ \A m \in BOOLEAN :
          LET table == IF m THEN full_steps ELSE half_steps
          IN  table # <<>> =>
                compute_step_indx(current_step, m, Len(table))
                    \in 0..(Len(table) - 1)
    /\ pc = "write" => step_indx \in 0..(Len(ActiveTable) - 1)

\* C25 witness: __step_motor is called in Half mode at a negative
\* half-integer position, and the index is the last row of the table
C25_Witness ==
    /\ pc = "write" /\ ~step_mode /\ current_step < 0
    /\ current_step % 2 = 1
    /\ step_indx = Len(half_steps) - 1

\* C26: step(n) of stepper_motors.Stepper polls the clock: an iteration
\* makes a step only when the clock reading minus the last step time is at
\* least step_delay, and otherwise sleeps; while the clock keeps advancing
\* the call terminates, after exactly |n| calls of __step_motor; and
\* step_number stays within [0, number_of_steps] throughout.
C26_PollingStepTerminates ==
    /\ [](/\ 0 <= step_number
          /\ step_number <= m_number_of_steps
          /\ m_emits + m_steps_left = Magnitude(m_num_steps)
          /\ (m_pc = "poll" /\ m_emits > 0)
                => emit_elapsed >= ceiling(m_step_delay))
    /\ [][(m_pc = "poll" /\ m_steps_left > 0) =>
            IF now - last_step_time >= ceiling(m_step_delay)
            THEN m_emits' = m_emits + 1 /\ now' = now
            ELSE m_emits' = m_emits /\ now' > now]_vars
    /\ (m_pc = "poll")
          ~> (m_pc = "idle" /\ m_emits = Magnitude(m_num_steps))

\* C26 witness: step(-2) has returned after two steps, the first of which
\* wrapped from 0 to number_of_steps, and after sleeping for the second
C26_Witness ==
    /\ m_pc = "idle" /\ m_num_steps = -2 /\ m_emits = 2
    /\ step_number = m_number_of_steps - 2
    /\ emit_elapsed >= 3
    /\ ceiling(m_step_delay) = 3
====
